---- MODULE Spec2Model ----
(***************************************************************************)
(* The mistake book of ai-summary-app: the table mistake_book and the four *)
(* route handlers that read and write it,                                  *)
(*   GET    /api/mistakes        list the active (not mastered) records    *)
(*   POST   /api/mistakes        bulk ingest of wrongly answered questions *)
(*   PATCH  /api/mistakes/[id]   record the outcome of one answer          *)
(*   DELETE /api/mistakes/[id]   remove a record                           *)
(* Every handler is a sequence of awaited store calls.  A store call is    *)
(* one atomic step of the database; between two calls of one request the   *)
(* calls of other requests may run.  A store call may also fail.           *)
(***************************************************************************)
EXTENDS Integers, Sequences, FiniteSets, TLC

VARIABLES
    table,    \* mistake_book: record id -> row, for the rows that exist
    nextId,   \* the next primary key the store hands out on insert
    clock,    \* the time new Date() / now() returns
    req,      \* the requests in flight, one per handler slot
    last,     \* history: the last step taken by a handler
    hist,     \* history: the group of overlapping requests in progress
    story     \* history: what was written on each record since its creation

vars == <<table, nextId, clock, req, last, hist, story>>

(* ------------------------------ bounds --------------------------------- *)

MaxIds == 2       \* rows the store ever inserts
MaxBatch == 2     \* questions in one POST body
MaxWrong == 3     \* the largest wrong_count the store takes
MaxStreak == 4    \* the largest correct_streak the store takes
MaxClock == 1     \* the clock stops advancing here
MaxGroup == 2     \* requests of one overlapping group the history keeps

Slots == {"r1", "r2"}

(* ----------------------------- constants ------------------------------- *)

MASTERY_THRESHOLD == 3

(* The question tuples a POST body may carry.  Q1 and Q1b have the same    *)
(* (storage_path, question_id) and differ in the question snapshot; Q2 is  *)
(* another question of the same document; Q3 has the question_id of Q1 in  *)
(* another document.                                                       *)
Q1  == [storage_path |-> "docA", file_name |-> "a.pdf", question_id |-> 1,
        question |-> "q1", options |-> <<"x", "y">>, answer |-> "x"]
Q1b == [storage_path |-> "docA", file_name |-> "a2.pdf", question_id |-> 1,
        question |-> "q1 regenerated", options |-> <<"y", "z">>, answer |-> "z"]
Q2  == [storage_path |-> "docA", file_name |-> "a.pdf", question_id |-> 2,
        question |-> "q2", options |-> <<"x", "y">>, answer |-> "y"]
Q3  == [storage_path |-> "docB", file_name |-> "b.pdf", question_id |-> 1,
        question |-> "q3", options |-> <<"x", "y">>, answer |-> "x"]
Questions == {Q1, Q1b, Q2, Q3}

Ids == 1..MaxIds

(* MistakeRecord *)
MistakeRecord(id, q, wc, cs, m, seen, created) ==
    [id |-> id,
     storage_path |-> q.storage_path, file_name |-> q.file_name,
     question_id |-> q.question_id, question |-> q.question,
     options |-> q.options, answer |-> q.answer,
     wrong_count |-> wc, correct_streak |-> cs, mastered |-> m,
     last_seen_at |-> seen, created_at |-> created]

(* ------------------------------ requests ------------------------------- *)

NoRow == [correct_streak |-> 0, wrong_count |-> 0]
NoExisting == [found |-> FALSE, id |-> 0, wrong_count |-> 0]

(* A handler slot: the request it runs, where the request stands, and the  *)
(* locals of the handler that live across its awaits.                      *)
Idle == [kind |-> "none", pc |-> "idle", id |-> 0, correct |-> FALSE,
         row |-> NoRow, questions |-> <<>>, existing |-> NoExisting]

Free(p) == req[p].pc = "idle"
Quiescent == \A p \in Slots : Free(p)

(* The last step a handler took, when that step wrote to the store or      *)
(* answered the request (NoStep after any other step): the store call it   *)
(* made, whether the store carried it out, the values the handler had read *)
(* (read), the record the call was aimed at as it was before the call      *)
(* (pre), the number of rows before the call, whether the request ran      *)
(* alone, and the answer if the step ended the request (status 0: none;    *)
(* mastered, newStreak and threshold are the body of the answer of PATCH,  *)
(* mistakes that of GET).                                                  *)
NoPre == [present |-> FALSE, wrong_count |-> 0, correct_streak |-> 0,
          mastered |-> FALSE]

Pre(t, id) ==
    IF id \in DOMAIN t
    THEN [present |-> TRUE, wrong_count |-> t[id].wrong_count,
          correct_streak |-> t[id].correct_streak, mastered |-> t[id].mastered]
    ELSE NoPre

NoStep == [step |-> "none", kind |-> "none", id |-> 0, ok |-> TRUE,
           correct |-> FALSE, found |-> FALSE, read |-> NoRow, pre |-> NoPre,
           rows |-> 0, alone |-> TRUE, status |-> 0, mastered |-> FALSE,
           newStreak |-> 0, threshold |-> 0, mistakes |-> <<>>]

(* Bodies of PATCH and POST requests as the handlers tell them apart.      *)
PatchBodies ==
    {[json |-> FALSE, hasBool |-> FALSE, correct |-> FALSE],
     [json |-> TRUE, hasBool |-> FALSE, correct |-> FALSE],
     [json |-> TRUE, hasBool |-> TRUE, correct |-> FALSE],
     [json |-> TRUE, hasBool |-> TRUE, correct |-> TRUE]}

Batches == UNION {[1..n -> Questions] : n \in 0..MaxBatch}

PostBodies ==
    {[json |-> FALSE, isArray |-> FALSE, questions |-> <<>>],
     [json |-> TRUE, isArray |-> FALSE, questions |-> <<>>]}
    \cup {[json |-> TRUE, isArray |-> TRUE, questions |-> b] : b \in Batches}

(* ------------------------------ the store ------------------------------ *)

MatchKey_QuestionIdOnly(t, sp, qid) == {id \in DOMAIN t : t[id].question_id = qid}

(* .eq('storage_path', sp).eq('question_id', qid): the ids of the rows     *)
(* with that composite key.                                                *)
MatchKey(t, sp, qid) ==
    {id \in DOMAIN t : t[id].storage_path = sp /\ t[id].question_id = qid}

(* .select('id, wrong_count') ... .maybeSingle(): the row when exactly one *)
(* row matches; data is null when none matches, and also when several      *)
(* match or the store fails (an error the caller may look at).             *)
MaybeSingle(t, M, ok) ==
    IF ok /\ Cardinality(M) = 1
    THEN LET id == CHOOSE x \in M : TRUE
         IN [found |-> TRUE, id |-> id, wrong_count |-> t[id].wrong_count]
    ELSE NoExisting

UpdateById_DropMastered(t, id, updates) ==
    IF id \notin DOMAIN t THEN t
    ELSE IF "mastered" \in DOMAIN updates /\ updates.mastered
    THEN [x \in DOMAIN t \ {id} |-> t[x]]
    ELSE [t EXCEPT ![id] =
            [c \in DOMAIN t[id] |->
                IF c \in DOMAIN updates THEN updates[c] ELSE t[id][c]]]

UpdateById_Upsert(t, id, updates) ==
    IF id \in DOMAIN t
    THEN [t EXCEPT ![id] =
            [c \in DOMAIN t[id] |->
                IF c \in DOMAIN updates THEN updates[c] ELSE t[id][c]]]
    ELSE [x \in DOMAIN t \cup {id} |-> IF x = id THEN updates ELSE t[x]]

(* .update(updates).eq('id', id): the columns named in updates are         *)
(* written on the row with that id; no row is written when none has it.    *)
UpdateById(t, id, updates) ==
    IF id \in DOMAIN t
    THEN [t EXCEPT ![id] =
            [c \in DOMAIN t[id] |->
                IF c \in DOMAIN updates THEN updates[c] ELSE t[id][c]]]
    ELSE t

(* .insert(row): a new row under a fresh primary key.                      *)
InsertRow(t, id, row) == [x \in DOMAIN t \cup {id} |-> IF x = id THEN row ELSE t[x]]

DeleteById_ActiveOnly(t, id) ==
    [x \in {y \in DOMAIN t : y # id \/ t[y].mastered} |-> t[x]]

(* .delete().eq('id', id) *)
DeleteById(t, id) == [x \in DOMAIN t \ {id} |-> t[x]]

SelectActive_All(t) == DOMAIN t

(* .eq('mastered', false) *)
SelectActive(t) == {id \in DOMAIN t : t[id].mastered = FALSE}

(* .order('created_at', { ascending: true }): the orders of the rows S in  *)
(* which created_at never falls; rows of equal created_at come in any      *)
(* order.                                                                  *)
RECURSIVE OrderByCreatedAt(_, _)
OrderByCreatedAt(t, S) ==
    IF S = {} THEN {<<>>}
    ELSE LET firsts == {id \in S : \A o \in S : t[id].created_at <= t[o].created_at}
         IN UNION {{<<t[id]>> \o rest : rest \in OrderByCreatedAt(t, S \ {id})} :
                   id \in firsts}

(* --------------------------- mastery algorithm ------------------------- *)

NewStreak_Capped(correct, row) ==
    IF ~correct THEN 0
    ELSE IF row.correct_streak >= MASTERY_THRESHOLD THEN row.correct_streak
    ELSE row.correct_streak + 1

NewStreak_NoIncrement(correct, row) == IF correct THEN row.correct_streak ELSE 0

NewStreak_NoReset(correct, row) ==
    IF correct THEN row.correct_streak + 1 ELSE row.correct_streak

NewStreak(correct, row) == IF correct THEN row.correct_streak + 1 ELSE 0

Mastered_Exactly(newStreak) == newStreak = MASTERY_THRESHOLD

Mastered_Early(newStreak) == newStreak >= MASTERY_THRESHOLD - 1

Mastered_Strict(newStreak) == newStreak > MASTERY_THRESHOLD

Mastered(newStreak) == newStreak >= MASTERY_THRESHOLD

PatchUpdates_SeenOnlyOnWrong(correct, row, now) ==
    LET base == [correct_streak |-> NewStreak(correct, row),
                 mastered |-> Mastered(NewStreak(correct, row))]
    IN IF ~correct
       THEN base @@ [wrong_count |-> row.wrong_count + 1, last_seen_at |-> now]
       ELSE base

PatchUpdates_NoMastered(correct, row, now) ==
    LET base == [correct_streak |-> NewStreak(correct, row),
                 last_seen_at |-> now]
    IN IF ~correct
       THEN base @@ [wrong_count |-> row.wrong_count + 1]
       ELSE base

PatchUpdates_AlwaysWrongCount(correct, row, now) ==
    [correct_streak |-> NewStreak(correct, row),
     mastered |-> Mastered(NewStreak(correct, row)),
     last_seen_at |-> now,
     wrong_count |-> IF correct THEN row.wrong_count ELSE row.wrong_count + 1]

(* The columns PATCH writes. *)
PatchUpdates(correct, row, now) ==
    LET base == [correct_streak |-> NewStreak(correct, row),
                 mastered |-> Mastered(NewStreak(correct, row)),
                 last_seen_at |-> now]
    IN IF ~correct
       THEN base @@ [wrong_count |-> row.wrong_count + 1]
       ELSE base

IngestUpdates_Recreate(existing, now) ==
    [wrong_count |-> existing.wrong_count + 1,
     correct_streak |-> 0,
     mastered |-> FALSE,
     last_seen_at |-> now,
     created_at |-> now]

IngestUpdates_KeepMastered(existing, now) ==
    [wrong_count |-> existing.wrong_count + 1,
     correct_streak |-> 0,
     last_seen_at |-> now]

(* The columns POST writes on a record it found. *)
IngestUpdates(existing, now) ==
    [wrong_count |-> existing.wrong_count + 1,
     correct_streak |-> 0,
     mastered |-> FALSE,
     last_seen_at |-> now]

IngestRow_Mastered(q, id, now) == MistakeRecord(id, q, 1, MASTERY_THRESHOLD, TRUE, now, now)

(* The row POST inserts for a question it did not find.  The insert names  *)
(* neither id nor created_at nor last_seen_at: the store fills in a fresh  *)
(* id and, for the two timestamps, the time of the insert.                 *)
IngestRow(q, id, now) == MistakeRecord(id, q, 1, 0, FALSE, now, now)

(* The store takes no write that would carry a counter over the bounds of  *)
(* the model: such a write fails like any other failing store call.        *)
InBounds(updates) ==
    /\ updates.correct_streak <= MaxStreak
    /\ "wrong_count" \in DOMAIN updates => updates.wrong_count <= MaxWrong

(* ------------------------------ history -------------------------------- *)

(* A group is a maximal run of requests that overlap: it starts when a     *)
(* request arrives while no other is in flight and ends when none is in    *)
(* flight any more.  hist.n counts the requests of the group in progress,  *)
(* up to MaxGroup + 1.  When hist.track is set, hist also keeps the table  *)
(* and the next id the group started from and the requests that joined it  *)
(* (base, nid, ops) for as long as every store call of the group succeeded *)
(* and the group fits in ops (clean).                                      *)
NoHist(track) ==
    [n |-> 0, track |-> track, base |-> <<>>, nid |-> 0, ops |-> <<>>, clean |-> TRUE]

Op(kind, id, correct, questions) ==
    [kind |-> kind, id |-> id, correct |-> correct, questions |-> questions]

Min(a, b) == IF a < b THEN a ELSE b

Dirty(n) == [NoHist(TRUE) EXCEPT !.n = Min(n, MaxGroup + 1), !.clean = FALSE]

HistArrive(op) ==
    IF ~hist.track
    THEN [hist EXCEPT !.n = IF Quiescent THEN 1 ELSE Min(@ + 1, 2)]
    ELSE IF Quiescent
    THEN [n |-> 1, track |-> TRUE, base |-> table, nid |-> nextId,
          ops |-> <<op>>, clean |-> TRUE]
    ELSE IF hist.clean /\ hist.n < MaxGroup
    THEN [hist EXCEPT !.n = @ + 1, !.ops = Append(@, op)]
    ELSE Dirty(hist.n + 1)

(* hist after a step that left the requests as r and whose store call      *)
(* succeeded or not.                                                       *)
HistStep(h, r, ok) ==
    LET quiet == \A p \in Slots : r[p].pc = "idle"
    IN IF ~h.track THEN (IF quiet THEN NoHist(FALSE) ELSE h)
       ELSE IF quiet THEN [NoHist(TRUE) EXCEPT !.clean = h.clean /\ ok]
       ELSE IF h.clean /\ ok THEN h
       ELSE Dirty(h.n)

(* The request that takes the step ran alone so far. *)
Alone == hist.n <= 1

(* A request is taken by a free slot; which one is immaterial. *)
Takes(p) == ~Quiescent \/ p = CHOOSE q \in Slots : TRUE

(* What the writes made on each stored record so far amount to (kept when  *)
(* story.on is set):                                                       *)
(*   streak  the updates of record-outcome calls with correct = true since *)
(*           the latest incorrect answer on the record (the update of a    *)
(*           call with correct = false, or of an ingest of its key) or     *)
(*           since its insert;                                             *)
(*   fresh   the same number for as long as nothing else was written on    *)
(*           the record since its insert, and -1 from then on;             *)
(*   grad    "yes" from the moment fresh reaches three, "wrong" once a     *)
(*           call with correct = false was written after that, and "no"    *)
(*           after an ingest of the key, as before the third call.         *)
NoStory(on) == [on |-> on, of |-> <<>>]

Created == [streak |-> 0, fresh |-> 0, grad |-> "no"]

StoryPatch(s, id, correct) ==
    IF ~s.on \/ id \notin DOMAIN s.of THEN s
    ELSE LET e == s.of[id]
             fresh == IF correct /\ e.fresh >= 0 THEN e.fresh + 1 ELSE -1
         IN [s EXCEPT !.of[id] =
                IF correct
                THEN [streak |-> e.streak + 1, fresh |-> fresh,
                      grad |-> IF fresh = 3 THEN "yes" ELSE e.grad]
                ELSE [streak |-> 0, fresh |-> -1,
                      grad |-> IF e.grad = "yes" THEN "wrong" ELSE e.grad]]

StoryIngest(s, id, found) ==
    IF ~s.on THEN s
    ELSE IF ~found
    THEN [s EXCEPT !.of = [x \in DOMAIN s.of \cup {id} |->
                              IF x = id THEN Created ELSE s.of[x]]]
    ELSE IF id \in DOMAIN s.of
    THEN [s EXCEPT !.of[id] = [streak |-> 0, fresh |-> -1, grad |-> "no"]]
    ELSE s

StoryDelete(s, id) ==
    IF ~s.on THEN s ELSE [s EXCEPT !.of = [x \in DOMAIN s.of \ {id} |-> s.of[x]]]

(* ------------------------------- Init ---------------------------------- *)

Init ==
    /\ table = <<>>
    /\ nextId = 1
    /\ clock = 0
    /\ req = [p \in Slots |-> Idle]
    /\ last = NoStep
    /\ hist = NoHist(FALSE)
    /\ story = NoStory(FALSE)

(* --------------------------- PATCH /api/mistakes/[id] ------------------ *)

PatchReject_AfterFetch(p, id, body) ==
    /\ Free(p) /\ Takes(p)
    /\ ~body.json \/ ~body.hasBool
    /\ last' = [NoStep EXCEPT !.step = "PatchReject", !.kind = "PATCH", !.id = id,
                              !.pre = Pre(table, id), !.rows = Cardinality(DOMAIN table),
                              !.alone = Quiescent,
                              !.status = IF id \in DOMAIN table THEN 400 ELSE 404]
    /\ UNCHANGED <<table, nextId, clock, req, hist, story>>

(* The request arrives and its body is not JSON or holds no boolean        *)
(* `correct`: it is answered 400 before any store call.                    *)
PatchReject(p, id, body) ==
    /\ Free(p) /\ Takes(p)
    /\ ~body.json \/ ~body.hasBool
    /\ last' = [NoStep EXCEPT !.step = "PatchReject", !.kind = "PATCH", !.id = id,
                              !.pre = Pre(table, id), !.rows = Cardinality(DOMAIN table),
                              !.alone = Quiescent, !.status = 400]
    /\ UNCHANGED <<table, nextId, clock, req, hist, story>>

PatchFetch_NoRowCheck(p, id, body, ok) ==
    /\ Free(p) /\ Takes(p)
    /\ body.json /\ body.hasBool
    /\ LET r0 == [Idle EXCEPT !.kind = "PATCH", !.id = id, !.correct = body.correct]
           fetched == ok
           row == IF id \in DOMAIN table
                  THEN [correct_streak |-> table[id].correct_streak,
                        wrong_count |-> table[id].wrong_count]
                  ELSE NoRow
           r == IF fetched THEN [r0 EXCEPT !.pc = "update", !.row = row] ELSE r0
       IN /\ req' = [req EXCEPT ![p] = r]
          /\ last' = IF fetched THEN NoStep
                     ELSE [NoStep EXCEPT !.step = "PatchFetch", !.kind = "PATCH",
                                         !.id = id, !.ok = ok,
                                         !.correct = body.correct,
                                         !.pre = Pre(table, id),
                                         !.rows = Cardinality(DOMAIN table),
                                         !.alone = Quiescent, !.status = 404]
          /\ hist' = HistStep(HistArrive(Op("PATCH", id, body.correct, <<>>)), req', ok)
    /\ UNCHANGED <<table, nextId, clock, story>>

(* The request arrives with a boolean `correct` and the row is fetched:    *)
(* .select('correct_streak, wrong_count').eq('id', id).single() gives an   *)
(* error when the store fails and when no row has the id; both are         *)
(* answered 404.                                                           *)
PatchFetch(p, id, body, ok) ==
    /\ Free(p) /\ Takes(p)
    /\ body.json /\ body.hasBool
    /\ LET r0 == [Idle EXCEPT !.kind = "PATCH", !.id = id, !.correct = body.correct]
           fetched == ok /\ id \in DOMAIN table
           row == [correct_streak |-> table[id].correct_streak,
                   wrong_count |-> table[id].wrong_count]
           r == IF fetched THEN [r0 EXCEPT !.pc = "update", !.row = row] ELSE r0
       IN /\ req' = [req EXCEPT ![p] = r]
          /\ last' = IF fetched THEN NoStep
                     ELSE [NoStep EXCEPT !.step = "PatchFetch", !.kind = "PATCH",
                                         !.id = id, !.ok = ok,
                                         !.correct = body.correct,
                                         !.pre = Pre(table, id),
                                         !.rows = Cardinality(DOMAIN table),
                                         !.alone = Quiescent, !.status = 404]
          /\ hist' = HistStep(HistArrive(Op("PATCH", id, body.correct, <<>>)), req', ok)
    /\ UNCHANGED <<table, nextId, clock, story>>

PatchUpdate_AnswersFetched(p, ok) ==
    /\ req[p].pc = "update"
    /\ LET r == req[p]
           newStreak == NewStreak(r.correct, r.row)
           mastered == Mastered(newStreak)
           updates == PatchUpdates(r.correct, r.row, clock)
       IN /\ ok => InBounds(updates)
          /\ table' = IF ok THEN UpdateById(table, r.id, updates) ELSE table
          /\ req' = [req EXCEPT ![p] = Idle]
          /\ last' = [NoStep EXCEPT !.step = "PatchUpdate", !.kind = "PATCH",
                                    !.id = r.id, !.ok = ok, !.correct = r.correct,
                                    !.found = TRUE, !.read = r.row,
                                    !.pre = Pre(table, r.id),
                                    !.rows = Cardinality(DOMAIN table),
                                    !.alone = Alone,
                                    !.status = IF ok THEN 200 ELSE 500,
                                    !.mastered = IF ok THEN Mastered(r.row.correct_streak)
                                                 ELSE FALSE,
                                    !.newStreak = IF ok THEN r.row.correct_streak ELSE 0,
                                    !.threshold = IF ok THEN MASTERY_THRESHOLD ELSE 0]
          /\ hist' = HistStep(hist, req', ok)
          /\ story' = IF ok THEN StoryPatch(story, r.id, r.correct) ELSE story
    /\ UNCHANGED <<nextId, clock>>

(* The new streak and the mastered flag are computed from the fetched row  *)
(* and written; the answer carries them.                                   *)
PatchUpdate(p, ok) ==
    /\ req[p].pc = "update"
    /\ LET r == req[p]
           newStreak == NewStreak(r.correct, r.row)
           mastered == Mastered(newStreak)
           updates == PatchUpdates(r.correct, r.row, clock)
       IN /\ ok => InBounds(updates)
          /\ table' = IF ok THEN UpdateById(table, r.id, updates) ELSE table
          /\ req' = [req EXCEPT ![p] = Idle]
          /\ last' = [NoStep EXCEPT !.step = "PatchUpdate", !.kind = "PATCH",
                                    !.id = r.id, !.ok = ok, !.correct = r.correct,
                                    !.found = TRUE, !.read = r.row,
                                    !.pre = Pre(table, r.id),
                                    !.rows = Cardinality(DOMAIN table),
                                    !.alone = Alone,
                                    !.status = IF ok THEN 200 ELSE 500,
                                    !.mastered = IF ok THEN mastered ELSE FALSE,
                                    !.newStreak = IF ok THEN newStreak ELSE 0,
                                    !.threshold = IF ok THEN MASTERY_THRESHOLD ELSE 0]
          /\ hist' = HistStep(hist, req', ok)
          /\ story' = IF ok THEN StoryPatch(story, r.id, r.correct) ELSE story
    /\ UNCHANGED <<nextId, clock>>

(* -------------------------- DELETE /api/mistakes/[id] ------------------ *)

Delete_NotFound(p, id, ok) ==
    /\ Free(p) /\ Takes(p)
    /\ table' = IF ok THEN DeleteById(table, id) ELSE table
    /\ req' = req
    /\ last' = [NoStep EXCEPT !.step = "Delete", !.kind = "DELETE", !.id = id,
                              !.ok = ok, !.pre = Pre(table, id),
                              !.rows = Cardinality(DOMAIN table),
                              !.alone = Quiescent,
                              !.status = IF ~ok THEN 500
                                         ELSE IF id \in DOMAIN table THEN 200 ELSE 404]
    /\ hist' = HistStep(HistArrive(Op("DELETE", id, FALSE, <<>>)), req', ok)
    /\ story' = IF ok THEN StoryDelete(story, id) ELSE story
    /\ UNCHANGED <<nextId, clock>>

(* .delete().eq('id', id): an id that matches no row is no error of the    *)
(* store; the answer is 500 when the store fails and { ok: true } else.    *)
Delete(p, id, ok) ==
    /\ Free(p) /\ Takes(p)
    /\ table' = IF ok THEN DeleteById(table, id) ELSE table
    /\ req' = req
    /\ last' = [NoStep EXCEPT !.step = "Delete", !.kind = "DELETE", !.id = id,
                              !.ok = ok, !.pre = Pre(table, id),
                              !.rows = Cardinality(DOMAIN table),
                              !.alone = Quiescent,
                              !.status = IF ok THEN 200 ELSE 500]
    /\ hist' = HistStep(HistArrive(Op("DELETE", id, FALSE, <<>>)), req', ok)
    /\ story' = IF ok THEN StoryDelete(story, id) ELSE story
    /\ UNCHANGED <<nextId, clock>>

(* ----------------------------- GET /api/mistakes ----------------------- *)

Get(p, ok) ==
    /\ Free(p) /\ Takes(p)
    /\ \E data \in OrderByCreatedAt(table, SelectActive(table)) :
          last' = [NoStep EXCEPT !.step = "Get", !.kind = "GET", !.ok = ok,
                                 !.rows = Cardinality(DOMAIN table),
                                 !.alone = Quiescent,
                                 !.status = IF ok THEN 200 ELSE 500,
                                 !.mistakes = IF ok THEN data ELSE <<>>]
    /\ req' = req
    /\ hist' = HistStep(HistArrive(Op("GET", 0, FALSE, <<>>)), req', ok)
    /\ UNCHANGED <<table, nextId, clock, story>>

(* ---------------------------- POST /api/mistakes ----------------------- *)

PostReject_EmptyOk(p, body) ==
    /\ Free(p) /\ Takes(p)
    /\ ~body.json \/ ~body.isArray \/ Len(body.questions) = 0
    /\ last' = [NoStep EXCEPT !.step = "PostReject", !.kind = "POST",
                              !.rows = Cardinality(DOMAIN table),
                              !.alone = Quiescent,
                              !.status = IF body.json /\ body.isArray THEN 200 ELSE 400]
    /\ UNCHANGED <<table, nextId, clock, req, hist, story>>

(* The request arrives and its body is not JSON, or `questions` is not an  *)
(* array or is empty: it is answered 400 before any store call.            *)
PostReject(p, body) ==
    /\ Free(p) /\ Takes(p)
    /\ ~body.json \/ ~body.isArray \/ Len(body.questions) = 0
    /\ last' = [NoStep EXCEPT !.step = "PostReject", !.kind = "POST",
                              !.rows = Cardinality(DOMAIN table),
                              !.alone = Quiescent, !.status = 400]
    /\ UNCHANGED <<table, nextId, clock, req, hist, story>>

(* The request arrives with a non-empty array: the loop starts.  The slot  *)
(* keeps the questions still to process, the current one first.            *)
PostBegin(p, body) ==
    /\ Free(p) /\ Takes(p)
    /\ body.json /\ body.isArray /\ Len(body.questions) > 0
    /\ req' = [req EXCEPT ![p] = [Idle EXCEPT !.kind = "POST", !.pc = "lookup",
                                                 !.questions = body.questions]]
    /\ last' = NoStep
    /\ hist' = HistStep(HistArrive(Op("POST", 0, FALSE, body.questions)), req', TRUE)
    /\ UNCHANGED <<table, nextId, clock, story>>

PostLookup_BeforeWrites(p, ok) ==
    /\ req[p].pc = "lookup"
    /\ LET r == req[p]
           q == Head(r.questions)
           t == IF hist.track /\ hist.clean THEN hist.base ELSE table
           M == MatchKey(t, q.storage_path, q.question_id)
           existing == MaybeSingle(t, M, ok)
       IN /\ req' = [req EXCEPT ![p] = [r EXCEPT !.pc = "write", !.existing = existing]]
          /\ last' = NoStep
    /\ hist' = HistStep(hist, req', ok)
    /\ UNCHANGED <<table, nextId, clock, story>>

(* for (const q of questions): the lookup of q by its composite key.  The  *)
(* error of the lookup is not read: existing is the data alone.            *)
PostLookup(p, ok) ==
    /\ req[p].pc = "lookup"
    /\ LET r == req[p]
           q == Head(r.questions)
           M == MatchKey(table, q.storage_path, q.question_id)
           existing == MaybeSingle(table, M, ok)
       IN /\ req' = [req EXCEPT ![p] = [r EXCEPT !.pc = "write", !.existing = existing]]
          /\ last' = NoStep
    /\ hist' = HistStep(hist, req', ok)
    /\ UNCHANGED <<table, nextId, clock, story>>

PostWrite_AbortOnError(p, ok) ==
    /\ req[p].pc = "write"
    /\ LET r == req[p]
           q == Head(r.questions)
           updates == IngestUpdates(r.existing, clock)
           rest == IF ok THEN Tail(r.questions) ELSE <<>>
           id == IF r.existing.found THEN r.existing.id ELSE nextId
       IN /\ IF r.existing.found
             THEN /\ ok => InBounds(updates)
                  /\ table' = IF ok THEN UpdateById(table, id, updates) ELSE table
                  /\ nextId' = nextId
             ELSE /\ ok => nextId <= MaxIds
                  /\ table' = IF ok THEN InsertRow(table, id, IngestRow(q, id, clock))
                              ELSE table
                  /\ nextId' = IF ok THEN nextId + 1 ELSE nextId
          /\ req' = [req EXCEPT ![p] =
                        IF rest = <<>> THEN Idle
                        ELSE [r EXCEPT !.pc = "lookup", !.questions = rest,
                                       !.existing = NoExisting]]
          /\ last' = [NoStep EXCEPT !.step = "PostWrite", !.kind = "POST",
                                    !.id = id, !.ok = ok,
                                    !.found = r.existing.found,
                                    !.read = [NoRow EXCEPT !.wrong_count =
                                                              r.existing.wrong_count],
                                    !.pre = Pre(table, id),
                                    !.rows = Cardinality(DOMAIN table),
                                    !.alone = Alone,
                                    !.status = IF ~ok THEN 500
                                               ELSE IF rest = <<>> THEN 200 ELSE 0]
          /\ story' = IF ok THEN StoryIngest(story, id, r.existing.found) ELSE story
    /\ hist' = HistStep(hist, req', ok)
    /\ UNCHANGED clock

(* The write for q: an update of the record found, or an insert.  The      *)
(* error of the write is not read; the loop goes on to the next question   *)
(* and the request answers { ok: true } after the last.                    *)
PostWrite(p, ok) ==
    /\ req[p].pc = "write"
    /\ LET r == req[p]
           q == Head(r.questions)
           updates == IngestUpdates(r.existing, clock)
           rest == Tail(r.questions)
           id == IF r.existing.found THEN r.existing.id ELSE nextId
       IN /\ IF r.existing.found
             THEN /\ ok => InBounds(updates)
                  /\ table' = IF ok THEN UpdateById(table, id, updates) ELSE table
                  /\ nextId' = nextId
             ELSE /\ ok => nextId <= MaxIds
                  /\ table' = IF ok THEN InsertRow(table, id, IngestRow(q, id, clock))
                              ELSE table
                  /\ nextId' = IF ok THEN nextId + 1 ELSE nextId
          /\ req' = [req EXCEPT ![p] =
                        IF rest = <<>> THEN Idle
                        ELSE [r EXCEPT !.pc = "lookup", !.questions = rest,
                                       !.existing = NoExisting]]
          /\ last' = [NoStep EXCEPT !.step = "PostWrite", !.kind = "POST",
                                    !.id = id, !.ok = ok,
                                    !.found = r.existing.found,
                                    !.read = [NoRow EXCEPT !.wrong_count =
                                                              r.existing.wrong_count],
                                    !.pre = Pre(table, id),
                                    !.rows = Cardinality(DOMAIN table),
                                    !.alone = Alone,
                                    !.status = IF rest = <<>> THEN 200 ELSE 0]
          /\ story' = IF ok THEN StoryIngest(story, id, r.existing.found) ELSE story
    /\ hist' = HistStep(hist, req', ok)
    /\ UNCHANGED clock

(* ------------------------------- the clock ----------------------------- *)

Tick ==
    /\ clock < MaxClock
    /\ clock' = clock + 1
    /\ UNCHANGED <<table, nextId, req, last, hist, story>>

(* ---------------------------- specifications --------------------------- *)

GoodPatchBodies == {b \in PatchBodies : b.json /\ b.hasBool}

Bodies(Qs) ==
    {b \in PostBodies : /\ b.json /\ b.isArray /\ Len(b.questions) > 0
                        /\ \A k \in 1..Len(b.questions) : b.questions[k] \in Qs}

(* The specifications below run the handlers on well-formed requests and   *)
(* with a store that carries out every call.                               *)
(* Spec: one request after the other, three questions with three composite *)
(* keys, the clock standing still.                                         *)
SeqQuestions == {Q1, Q2, Q3}

Next ==
    \/ \E p \in Slots, id \in Ids, body \in GoodPatchBodies :
          Quiescent /\ PatchFetch(p, id, body, TRUE)
    \/ \E p \in Slots : PatchUpdate(p, TRUE)
    \/ \E p \in Slots, body \in Bodies(SeqQuestions) : Quiescent /\ PostBegin(p, body)
    \/ \E p \in Slots : PostLookup(p, TRUE)
    \/ \E p \in Slots : PostWrite(p, TRUE)
    \/ \E p \in Slots, id \in Ids : Quiescent /\ Delete(p, id, TRUE)
    \/ \E p \in Slots : Quiescent /\ Get(p, TRUE)

Spec == Init /\ [][Next]_vars

(* SpecClock: one request after the other, two questions, the clock        *)
(* advancing between the steps.                                            *)
ClockQuestions == {Q1, Q2}

NextClock ==
    \/ \E p \in Slots, id \in Ids, body \in GoodPatchBodies :
          Quiescent /\ PatchFetch(p, id, body, TRUE)
    \/ \E p \in Slots : PatchUpdate(p, TRUE)
    \/ \E p \in Slots, body \in Bodies(ClockQuestions) : Quiescent /\ PostBegin(p, body)
    \/ \E p \in Slots : PostLookup(p, TRUE)
    \/ \E p \in Slots : PostWrite(p, TRUE)
    \/ \E p \in Slots, id \in Ids : Quiescent /\ Delete(p, id, TRUE)
    \/ \E p \in Slots : Quiescent /\ Get(p, TRUE)
    \/ Tick

SpecClock == Init /\ [][NextClock]_vars

(* SpecRace: requests overlap; all questions have one composite key and    *)
(* the clock stands still.  The history of each group is kept.             *)
RaceQuestions == {Q1}

InitRace ==
    /\ table = <<>>
    /\ nextId = 1
    /\ clock = 0
    /\ req = [p \in Slots |-> Idle]
    /\ last = NoStep
    /\ hist = NoHist(TRUE)
    /\ story = NoStory(FALSE)

NextRace ==
    \/ \E p \in Slots, id \in Ids, body \in GoodPatchBodies : PatchFetch(p, id, body, TRUE)
    \/ \E p \in Slots : PatchUpdate(p, TRUE)
    \/ \E p \in Slots, body \in Bodies(RaceQuestions) : PostBegin(p, body)
    \/ \E p \in Slots : PostLookup(p, TRUE)
    \/ \E p \in Slots : PostWrite(p, TRUE)
    \/ \E p \in Slots, id \in Ids : Delete(p, id, TRUE)

SpecRace == InitRace /\ [][NextRace]_vars

(* SpecStory: one request after the other, two questions, the clock        *)
(* standing still.  The story of each record is kept.                      *)
StoryQuestions == {Q1, Q2}

InitStory ==
    /\ table = <<>>
    /\ nextId = 1
    /\ clock = 0
    /\ req = [p \in Slots |-> Idle]
    /\ last = NoStep
    /\ hist = NoHist(FALSE)
    /\ story = NoStory(TRUE)

NextStory ==
    \/ \E p \in Slots, id \in Ids, body \in GoodPatchBodies :
          Quiescent /\ PatchFetch(p, id, body, TRUE)
    \/ \E p \in Slots : PatchUpdate(p, TRUE)
    \/ \E p \in Slots, body \in Bodies(StoryQuestions) : Quiescent /\ PostBegin(p, body)
    \/ \E p \in Slots : PostLookup(p, TRUE)
    \/ \E p \in Slots : PostWrite(p, TRUE)
    \/ \E p \in Slots, id \in Ids : Quiescent /\ Delete(p, id, TRUE)
    \/ \E p \in Slots : Quiescent /\ Get(p, TRUE)

SpecStory == InitStory /\ [][NextStory]_vars

(* SpecFail: one request after the other, two questions, the clock         *)
(* standing still; the requests carry any body, well-formed or not, and    *)
(* any store call may fail.  The history of each request is kept.          *)
FailQuestions == {Q1, Q2}

FailPostBodies ==
    {b \in PostBodies : \A k \in 1..Len(b.questions) : b.questions[k] \in FailQuestions}

NextFail ==
    \/ \E p \in Slots, id \in Ids, body \in PatchBodies :
          Quiescent /\ PatchReject(p, id, body)
    \/ \E p \in Slots, id \in Ids, body \in PatchBodies, ok \in BOOLEAN :
          Quiescent /\ PatchFetch(p, id, body, ok)
    \/ \E p \in Slots, ok \in BOOLEAN : PatchUpdate(p, ok)
    \/ \E p \in Slots, body \in FailPostBodies : Quiescent /\ PostReject(p, body)
    \/ \E p \in Slots, body \in FailPostBodies : Quiescent /\ PostBegin(p, body)
    \/ \E p \in Slots, ok \in BOOLEAN : PostLookup(p, ok)
    \/ \E p \in Slots, ok \in BOOLEAN : PostWrite(p, ok)
    \/ \E p \in Slots, id \in Ids, ok \in BOOLEAN : Quiescent /\ Delete(p, id, ok)
    \/ \E p \in Slots, ok \in BOOLEAN : Quiescent /\ Get(p, ok)

SpecFail == InitRace /\ [][NextFail]_vars

(* SpecSnap: one request after the other, the clock advancing between the  *)
(* steps; the questions are two snapshots of one composite key.  The       *)
(* history of each request is kept.                                        *)
SnapQuestions == {Q1, Q1b}

NextSnap ==
    \/ \E p \in Slots, id \in Ids, body \in GoodPatchBodies :
          Quiescent /\ PatchFetch(p, id, body, TRUE)
    \/ \E p \in Slots : PatchUpdate(p, TRUE)
    \/ \E p \in Slots, body \in Bodies(SnapQuestions) : Quiescent /\ PostBegin(p, body)
    \/ \E p \in Slots : PostLookup(p, TRUE)
    \/ \E p \in Slots : PostWrite(p, TRUE)
    \/ \E p \in Slots, id \in Ids : Quiescent /\ Delete(p, id, TRUE)
    \/ \E p \in Slots : Quiescent /\ Get(p, TRUE)
    \/ Tick

SpecSnap == InitRace /\ [][NextSnap]_vars

(* ------------------------------- claims -------------------------------- *)

(* The step is the last store call of a PATCH in slot p: its update.       *)
PatchUpdateStep(p) == req[p].pc = "update" /\ req'[p].pc = "idle"

(* The step is the first store call of a PATCH in slot p that found its    *)
(* row: the fetch.                                                         *)
PatchFetchStep(p) == req[p].pc = "idle" /\ req'[p].pc = "update"

(* C1: in every reachable state, between the store calls of overlapping    *)
(* ingest, record-outcome and delete requests too, every record has        *)
(* mastered = TRUE exactly when correct_streak >= 3.                       *)
C1_MasteredIffStreak ==
    \A id \in DOMAIN table :
        table[id].mastered = (table[id].correct_streak >= MASTERY_THRESHOLD)

(* A mastered record while a PATCH that fetched it with a streak below the *)
(* threshold is still to write.                                            *)
C1_Witness ==
    \E p \in Slots :
        /\ req[p].pc = "update"
        /\ req[p].id \in DOMAIN table
        /\ table[req[p].id].mastered
        /\ req[p].row.correct_streak < MASTERY_THRESHOLD

(* C2: a record-outcome call run alone on an existing record writes        *)
(* correct_streak = prior correct_streak + 1 when correct is true and 0    *)
(* when it is false, and mastered = (new correct_streak >= 3).             *)
C2_OutcomeAlone ==
    (last.step = "PatchUpdate" /\ last.ok /\ last.alone) =>
        /\ last.pre.present
        /\ last.id \in DOMAIN table
        /\ table[last.id].correct_streak =
              (IF last.correct THEN last.pre.correct_streak + 1 ELSE 0)
        /\ table[last.id].mastered =
              (table[last.id].correct_streak >= MASTERY_THRESHOLD)

(* A call run alone with correct = true took the streak from 2 to 3 and    *)
(* the record to mastered.                                                 *)
C2_Witness ==
    /\ last.step = "PatchUpdate" /\ last.ok /\ last.alone /\ last.correct
    /\ last.pre.correct_streak = 2
    /\ table[last.id].correct_streak = 3
    /\ table[last.id].mastered

(* C3: through record-outcome, wrong_count changes only in the update of a *)
(* call with correct = false, which writes the wrong_count it fetched plus *)
(* 1 on its record: that is 1 more than before when the call runs alone.   *)
(* The update of a call with correct = true leaves wrong_count as it is,   *)
(* also when the wrong_count it fetched is no longer the current one, and  *)
(* the fetch writes nothing.                                               *)
C3_WrongCountFrame ==
    [][\A p \in Slots :
          /\ PatchFetchStep(p) => table' = table
          /\ PatchUpdateStep(p) =>
                /\ DOMAIN table' = DOMAIN table
                /\ \A id \in DOMAIN table :
                      table'[id].wrong_count =
                         IF id = req[p].id /\ ~req[p].correct
                         THEN req[p].row.wrong_count + 1
                         ELSE table[id].wrong_count
                /\ (~req[p].correct /\ Alone /\ req[p].id \in DOMAIN table) =>
                      table'[req[p].id].wrong_count = table[req[p].id].wrong_count + 1
      ]_vars

(* A call with correct = true has written while the wrong_count it had     *)
(* fetched was stale, and the column kept its value.                       *)
C3_Witness ==
    /\ last.step = "PatchUpdate" /\ last.ok /\ last.correct
    /\ last.pre.present
    /\ last.read.wrong_count # last.pre.wrong_count
    /\ table[last.id].wrong_count = last.pre.wrong_count

(* C4: for every record id, wrong_count never becomes smaller from one     *)
(* state to the next, whatever the interleaving of ingest and              *)
(* record-outcome requests.                                                *)
C4_WrongCountMonotone ==
    [][\A id \in DOMAIN table \cap DOMAIN table' :
          table'[id].wrong_count >= table[id].wrong_count]_vars

(* C5: in every reachable state the table holds at most one record for     *)
(* each (storage_path, question_id) pair.                                  *)
C5_OneRecordPerKey ==
    \A a, b \in DOMAIN table :
        (/\ table[a].storage_path = table[b].storage_path
         /\ table[a].question_id = table[b].question_id) => a = b

(* C6 as stated: no record-outcome call takes a record from mastered =     *)
(* TRUE to mastered = FALSE.                                               *)
C6_OutcomeNeverUnretires ==
    (last.step = "PatchUpdate" /\ last.ok /\ last.pre.present /\ last.pre.mastered) =>
        table[last.id].mastered

(* C6 as amended: a record-outcome call with correct = true that fetched   *)
(* a correct_streak of 2 or more leaves the record mastered, so it never   *)
(* un-retires a record it fetched as mastered; a call with correct = false *)
(* leaves the record with mastered = FALSE and correct_streak = 0 whatever *)
(* it fetched, so it un-retires a mastered record as bulk ingest does.     *)
C6_OutcomeUnretiresOnIncorrect ==
    (last.step = "PatchUpdate" /\ last.ok /\ last.pre.present) =>
        /\ (last.correct /\ last.read.correct_streak >= MASTERY_THRESHOLD - 1) =>
              table[last.id].mastered
        /\ ~last.correct =>
              /\ ~table[last.id].mastered
              /\ table[last.id].correct_streak = 0

(* A call with correct = false has taken a mastered record back to active. *)
C6_Witness ==
    /\ last.step = "PatchUpdate" /\ last.ok /\ ~last.correct
    /\ last.pre.present /\ last.pre.mastered
    /\ last.pre.correct_streak >= MASTERY_THRESHOLD
    /\ ~table[last.id].mastered

(* A request run from its first store call to its last with no other       *)
(* request in between, on the table t with next id n: the table and the    *)
(* next id it leaves.                                                      *)
RunPatch(st, op) ==
    IF op.id \in DOMAIN st.t
    THEN [st EXCEPT !.t = UpdateById(st.t, op.id,
                             PatchUpdates(op.correct,
                                 [correct_streak |-> st.t[op.id].correct_streak,
                                  wrong_count |-> st.t[op.id].wrong_count],
                                 clock))]
    ELSE st

RunIngest(st, q) ==
    LET existing == MaybeSingle(st.t, MatchKey(st.t, q.storage_path, q.question_id),
                                TRUE)
    IN IF existing.found
       THEN [st EXCEPT !.t = UpdateById(st.t, existing.id,
                                        IngestUpdates(existing, clock))]
       ELSE [t |-> InsertRow(st.t, st.n, IngestRow(q, st.n, clock)), n |-> st.n + 1]

RECURSIVE RunPost(_, _)
RunPost(st, qs) ==
    IF qs = <<>> THEN st ELSE RunPost(RunIngest(st, Head(qs)), Tail(qs))

RunRequest(st, op) ==
    IF op.kind = "PATCH" THEN RunPatch(st, op)
    ELSE IF op.kind = "POST" THEN RunPost(st, op.questions)
    ELSE IF op.kind = "DELETE" THEN [st EXCEPT !.t = DeleteById(st.t, op.id)]
    ELSE st

RECURSIVE RunInOrder(_, _, _)
RunInOrder(st, ops, order) ==
    IF order = <<>> THEN st
    ELSE RunInOrder(RunRequest(st, ops[Head(order)]), ops, Tail(order))

Orders(n) == {f \in [1..n -> 1..n] : \A i, j \in 1..n : f[i] = f[j] => i = j}

(* What C7 compares: the records by composite key with their counters and  *)
(* flag, and how many there are (the ids of inserted rows depend on the    *)
(* order).                                                                 *)
Ledger(t) ==
    <<Cardinality(DOMAIN t),
      {[storage_path |-> t[id].storage_path, question_id |-> t[id].question_id,
        wrong_count |-> t[id].wrong_count, correct_streak |-> t[id].correct_streak,
        mastered |-> t[id].mastered] : id \in DOMAIN t}>>

(* C7: when the requests of a group (overlapping record-outcome, ingest    *)
(* and delete requests) are all answered, the records are as if the same   *)
(* requests had run one after the other in some order: no update is lost.  *)
C7_NoLostUpdate ==
    [][(/\ ~Quiescent
        /\ \A p \in Slots : req'[p].pc = "idle"
        /\ hist.track /\ hist.clean /\ hist'.clean)
       => \E order \in Orders(Len(hist.ops)) :
             Ledger(table') =
                Ledger(RunInOrder([t |-> hist.base, n |-> hist.nid], hist.ops, order).t)
      ]_vars

(* C8: list active mistakes returns exactly the records whose mastered is  *)
(* FALSE at the time of the read, each once, in ascending created_at       *)
(* order, and never a record whose mastered is TRUE.                       *)
C8_ListActive ==
    (last.step = "Get" /\ last.status = 200) =>
        LET m == last.mistakes
        IN /\ {m[i] : i \in 1..Len(m)} =
                 {table[id] : id \in {x \in DOMAIN table : ~table[x].mastered}}
           /\ \A i, j \in 1..Len(m) :
                 i < j => /\ m[i].id # m[j].id
                          /\ m[i].created_at <= m[j].created_at
           /\ \A i \in 1..Len(m) : ~m[i].mastered

(* The list holds the one active record and leaves out a mastered record   *)
(* that was created before it.                                             *)
C8_Witness ==
    /\ last.step = "Get" /\ last.status = 200
    /\ Len(last.mistakes) = 1
    /\ \E id \in DOMAIN table :
          /\ table[id].mastered
          /\ table[id].created_at < last.mistakes[1].created_at

(* The step is the write of an ingest step in slot p. *)
IngestWriteStep(p) == req[p].pc = "write" /\ req'[p].pc # "write"

(* The records with the composite key of the question the ingest step in   *)
(* slot p is at.                                                           *)
SameKey(p) ==
    {id \in DOMAIN table :
        /\ table[id].storage_path = Head(req[p].questions).storage_path
        /\ table[id].question_id = Head(req[p].questions).question_id}

(* C9: an ingest step whose (storage_path, question_id) matches an         *)
(* existing record, whatever the state of that record, leaves it with      *)
(* wrong_count one higher, correct_streak = 0 and mastered = FALSE, and    *)
(* inserts no record.                                                      *)
C9_IngestExisting ==
    [][\A p \in Slots :
          (IngestWriteStep(p) /\ SameKey(p) # {}) =>
              /\ DOMAIN table' = DOMAIN table
              /\ \A id \in SameKey(p) :
                    /\ table'[id].wrong_count = table[id].wrong_count + 1
                    /\ table'[id].correct_streak = 0
                    /\ table'[id].mastered = FALSE
      ]_vars

(* An ingest step found a mastered record with a streak of 3 or more and   *)
(* took it back to active.                                                 *)
C9_Witness ==
    /\ last.step = "PostWrite" /\ last.ok /\ last.found
    /\ last.pre.mastered /\ last.pre.correct_streak >= MASTERY_THRESHOLD
    /\ table[last.id].wrong_count = last.pre.wrong_count + 1
    /\ table[last.id].correct_streak = 0
    /\ ~table[last.id].mastered
    /\ Cardinality(DOMAIN table) = last.rows

(* C10: an ingest step whose (storage_path, question_id) matches no        *)
(* existing record inserts exactly one record, with the fields of the      *)
(* question, wrong_count = 1, correct_streak = 0 and mastered = FALSE, and *)
(* changes no other record.                                                *)
C10_IngestNew ==
    [][\A p \in Slots :
          (IngestWriteStep(p) /\ SameKey(p) = {}) =>
              LET q == Head(req[p].questions)
              IN \E new \in DOMAIN table' \ DOMAIN table :
                    /\ DOMAIN table' = DOMAIN table \cup {new}
                    /\ table'[new].storage_path = q.storage_path
                    /\ table'[new].question_id = q.question_id
                    /\ table'[new].question = q.question
                    /\ table'[new].wrong_count = 1
                    /\ table'[new].correct_streak = 0
                    /\ table'[new].mastered = FALSE
                    /\ \A id \in DOMAIN table : table'[id] = table[id]
      ]_vars

(* An ingest step has inserted a second record beside one that was there.  *)
C10_Witness ==
    /\ last.step = "PostWrite" /\ last.ok /\ ~last.found
    /\ last.rows = 1
    /\ Cardinality(DOMAIN table) = 2
    /\ last.id \in DOMAIN table
    /\ table[last.id].wrong_count = 1
    /\ table[last.id].correct_streak = 0
    /\ ~table[last.id].mastered

(* C11: no write of bulk ingest sets mastered = TRUE or a correct_streak   *)
(* above 0: every record an ingest step inserts or changes has mastered =  *)
(* FALSE and correct_streak = 0 right after that write, also when other    *)
(* requests wrote the record between the lookup and the write.             *)
C11_IngestNeverMasters ==
    [][\A p \in Slots :
          IngestWriteStep(p) =>
              \A id \in DOMAIN table' :
                 (id \notin DOMAIN table \/ table'[id] # table[id]) =>
                     /\ table'[id].mastered = FALSE
                     /\ table'[id].correct_streak = 0
      ]_vars

(* An ingest step looked a record up, a record-outcome call took the       *)
(* record to mastered before the ingest step wrote, and the write left it  *)
(* active with a streak of 0.                                              *)
C11_Witness ==
    /\ last.step = "PostWrite" /\ last.ok /\ last.found /\ ~last.alone
    /\ last.pre.mastered
    /\ table[last.id].mastered = FALSE
    /\ table[last.id].correct_streak = 0

(* C12: a record created by ingest has correct_streak = 0, wrong_count = 1 *)
(* and mastered = FALSE; after one and after two record-outcome calls with *)
(* correct = true, nothing else having been written on the record, it has  *)
(* correct_streak 1 and 2, wrong_count 1 and mastered = FALSE; after the   *)
(* third it has mastered = TRUE, correct_streak = 3 and wrong_count 1.     *)
C12_ThreeCorrectMaster ==
    /\ DOMAIN story.of = DOMAIN table
    /\ \A id \in DOMAIN table :
          story.of[id].fresh \in 0..3 =>
              /\ table[id].wrong_count = 1
              /\ table[id].correct_streak = story.of[id].fresh
              /\ table[id].mastered = (story.of[id].fresh = 3)

(* The third call in a row on a record created by ingest has just been     *)
(* written.                                                                *)
C12_Witness ==
    /\ last.step = "PatchUpdate" /\ last.ok /\ last.correct
    /\ last.id \in DOMAIN table
    /\ story.of[last.id].fresh = 3
    /\ last.pre.correct_streak = 2 /\ ~last.pre.mastered
    /\ table[last.id].mastered

(* C13 as stated: a record created by ingest and driven to mastery by      *)
(* three record-outcome calls with correct = true is in no later           *)
(* list-active-mistakes result for as long as it is stored and no ingest   *)
(* for its composite key has happened.                                     *)
C13_AbsentUntilIngest ==
    (last.step = "Get" /\ last.status = 200) =>
        \A id \in DOMAIN table :
            story.of[id].grad \in {"yes", "wrong"} =>
                \A i \in 1..Len(last.mistakes) : last.mistakes[i].id # id

(* C13 as amended: such a record stays stored with mastered = TRUE, and is *)
(* in no later list-active-mistakes result, until an ingest for its        *)
(* composite key or a record-outcome call with correct = false on it       *)
(* happens, or it is deleted.                                              *)
C13_AbsentUntilIncorrect ==
    /\ DOMAIN story.of = DOMAIN table
    /\ \A id \in DOMAIN table :
          story.of[id].grad = "yes" =>
              /\ table[id].mastered
              /\ (last.step = "Get" /\ last.status = 200) =>
                    \A i \in 1..Len(last.mistakes) : last.mistakes[i].id # id

(* A list that holds an active record and leaves out a stored record that  *)
(* was driven to mastery.                                                  *)
C13_Witness ==
    /\ last.step = "Get" /\ last.status = 200
    /\ Len(last.mistakes) = 1
    /\ \E id \in DOMAIN table :
          /\ story.of[id].grad = "yes"
          /\ last.mistakes[1].id # id

(* C14: a record-outcome call with a boolean `correct` whose id matches no *)
(* stored record is answered NotFound (404) at its fetch and leaves the    *)
(* table as it is; no call goes on to its update for an id that matches no *)
(* record.                                                                 *)
C14_NotFound ==
    [][/\ \A p \in Slots : PatchFetchStep(p) => req'[p].id \in DOMAIN table
       /\ (last'.step = "PatchFetch" /\ ~last'.pre.present) =>
             /\ last'.status = 404
             /\ table' = table
             /\ \A p \in Slots : req'[p].pc = "idle"
      ]_vars

(* A call on an id that matches none of the records of a non-empty table   *)
(* was answered 404 by a store that carried out the fetch.                 *)
C14_Witness ==
    /\ last.step = "PatchFetch" /\ last.ok /\ ~last.pre.present
    /\ last.status = 404
    /\ last.rows = 1 /\ Cardinality(DOMAIN table) = 1

C16_DeleteIdempotent ==
    [][(last'.step = "Delete") =>
          IF last'.ok
          THEN /\ last'.status = 200
               /\ table' = DeleteById(table, last'.id)
               /\ last'.id \notin DOMAIN table'
               /\ DeleteById(table', last'.id) = table'
               /\ ~last'.pre.present => table' = table
          ELSE last'.status = 500 /\ table' = table
      ]_vars

(* The delete of an id that matches none of the records of a non-empty     *)
(* table was answered with success and the records are all there.          *)
C16_Witness ==
    /\ last.step = "Delete" /\ last.ok /\ ~last.pre.present
    /\ last.status = 200
    /\ last.rows = 1 /\ Cardinality(DOMAIN table) = 1

(* C17: when the write of one tuple of a bulk ingest fails, the table      *)
(* stays as the earlier writes left it, the request goes on to the lookup  *)
(* of the next tuple if there is one, and the caller is answered once,     *)
(* after the write of the last tuple, failed or not.                       *)
C17_PartialFailure ==
    [][\A p \in Slots :
          IngestWriteStep(p) =>
              LET rest == Tail(req[p].questions)
              IN /\ (last'.status # 0) = (rest = <<>>)
                 /\ ~last'.ok =>
                       /\ table' = table
                       /\ IF rest = <<>>
                          THEN req'[p].pc = "idle" /\ last'.status = 200
                          ELSE /\ req'[p].pc = "lookup"
                               /\ req'[p].questions = rest
      ]_vars

(* The write of the first tuple of a batch of two has failed and the       *)
(* request is at the lookup of the second.                                 *)
C17_Witness ==
    /\ last.step = "PostWrite" /\ ~last.ok /\ last.status = 0
    /\ \E p \in Slots : req[p].pc = "lookup" /\ Len(req[p].questions) = 1

(* C18: no request is answered with success when a store call it made      *)
(* reported an error, whether list, bulk ingest, record outcome or delete; *)
(* and a store call that failed is not made again: the request ends or     *)
(* goes on to its next call.                                               *)
C18_FailuresSurfaced ==
    [][/\ last'.status = 200 => hist'.clean
       /\ ~hist'.clean =>
             \A p \in Slots : req'[p].pc = "idle" \/ req'[p].pc # req[p].pc
      ]_vars

(* C19: record outcome answers NotFound (404) only when no record has the  *)
(* id; when the store fails at the fetch of a stored record the answer is  *)
(* StorageFailure (500).                                                   *)
C19_NotFoundOnlyWhenAbsent ==
    (last.step = "PatchFetch" /\ last.status # 0) =>
        /\ last.status = 404 => ~last.pre.present
        /\ (~last.ok /\ last.pre.present) => last.status = 500

(* C20: when requests do not overlap, the correct_streak of every stored   *)
(* record is the number of record-outcome calls with correct = true        *)
(* written on it since the latest incorrect answer on it (a record-outcome *)
(* call with correct = false, or an ingest of its composite key) or since  *)
(* its creation, and is never negative.                                    *)
C20_StreakCounts ==
    /\ DOMAIN story.of = DOMAIN table
    /\ \A id \in DOMAIN table :
          /\ table[id].correct_streak = story.of[id].streak
          /\ table[id].correct_streak >= 0

(* A record that was answered incorrectly after its creation and twice     *)
(* correctly since.                                                        *)
C20_Witness ==
    /\ last.step = "PatchUpdate" /\ last.ok /\ last.correct
    /\ last.id \in DOMAIN table
    /\ story.of[last.id].fresh = -1
    /\ story.of[last.id].streak = 2
    /\ table[last.id].correct_streak = 2
    /\ table[last.id].wrong_count >= 2

(* C21: no step changes the id, created_at, storage_path, file_name,       *)
(* question_id, question, options or answer of a record that stays stored: *)
(* a re-ingest of its composite key with another question text, options or *)
(* answer, at a later time, leaves the snapshot and created_at as they     *)
(* were at the insert.                                                     *)
C21_SnapshotFrozen ==
    [][\A id \in DOMAIN table \cap DOMAIN table' :
          /\ table'[id].id = table[id].id
          /\ table'[id].created_at = table[id].created_at
          /\ table'[id].storage_path = table[id].storage_path
          /\ table'[id].file_name = table[id].file_name
          /\ table'[id].question_id = table[id].question_id
          /\ table'[id].question = table[id].question
          /\ table'[id].options = table[id].options
          /\ table'[id].answer = table[id].answer
      ]_vars

(* A batch whose first tuple is the regenerated snapshot of a stored        *)
(* question has written that tuple, later than the insert, and the record  *)
(* has the snapshot and created_at of its insert.                          *)
C21_Witness ==
    /\ last.step = "PostWrite" /\ last.ok /\ last.found
    /\ hist.clean /\ Len(hist.ops) = 1
    /\ hist.ops[1].kind = "POST" /\ hist.ops[1].questions = <<Q1b, Q1b>>
    /\ \E p \in Slots : req[p].pc = "lookup" /\ Len(req[p].questions) = 1
    /\ last.id \in DOMAIN table
    /\ table[last.id].question = Q1.question
    /\ table[last.id].answer = Q1.answer
    /\ table[last.id].created_at = 0
    /\ table[last.id].last_seen_at = 1

(* C22: the set of stored record ids loses an id only in a delete, and     *)
(* then the id deleted: no step of list, bulk ingest or record outcome,    *)
(* the update that makes a record mastered included, removes a record.     *)
C22_OnlyDeleteRemoves ==
    [][\/ DOMAIN table \subseteq DOMAIN table'
       \/ /\ last'.step = "Delete"
          /\ DOMAIN table' = DOMAIN table \ {last'.id}
      ]_vars

(* A record-outcome call has just made one of two stored records mastered  *)
(* and both are still stored.                                              *)
C22_Witness ==
    /\ last.step = "PatchUpdate" /\ last.ok /\ last.correct
    /\ ~last.pre.mastered
    /\ last.rows = 2 /\ Cardinality(DOMAIN table) = 2
    /\ table[last.id].mastered

(* C23: a record-outcome call whose update the store carried out is        *)
(* answered with success, with mastered and newStreak equal to the         *)
(* mastered and correct_streak the call wrote on the record, and           *)
(* threshold = 3; a call whose update failed is answered with an error     *)
(* (500) that carries none of the three, and has written nothing.          *)
C23_OutcomeAnswer ==
    (last.step = "PatchUpdate") =>
        IF last.ok
        THEN /\ last.status = 200
             /\ last.threshold = 3
             /\ last.newStreak = (IF last.correct THEN last.read.correct_streak + 1 ELSE 0)
             /\ last.id \in DOMAIN table =>
                   /\ table[last.id].correct_streak = last.newStreak
                   /\ table[last.id].mastered = last.mastered
        ELSE /\ last.status = 500
             /\ last.threshold = 0 /\ last.newStreak = 0 /\ last.mastered = FALSE
             /\ last.id \in DOMAIN table =>
                   /\ table[last.id].correct_streak = last.pre.correct_streak
                   /\ table[last.id].mastered = last.pre.mastered

(* A call was answered mastered = true and newStreak = 3, the values it    *)
(* wrote on a record it had fetched with a streak of 2.                    *)
C23_Witness ==
    /\ last.step = "PatchUpdate" /\ last.ok /\ last.status = 200
    /\ last.read.correct_streak = 2
    /\ last.mastered /\ last.newStreak = 3 /\ last.threshold = 3
    /\ table[last.id].mastered /\ table[last.id].correct_streak = 3

(* C24: the update of every record-outcome call, with correct true or      *)
(* false, and the update of every ingest step that found a record set      *)
(* last_seen_at of the record to the time of the call; with a clock that   *)
(* never goes back and requests that do not overlap, last_seen_at of a     *)
(* record never moves backwards.                                           *)
C24_LastSeen ==
    [][/\ \A p \in Slots :
             /\ (PatchUpdateStep(p) /\ req[p].id \in DOMAIN table) =>
                    table'[req[p].id].last_seen_at = clock
             /\ (IngestWriteStep(p) /\ req[p].existing.found
                    /\ req[p].existing.id \in DOMAIN table) =>
                    table'[req[p].existing.id].last_seen_at = clock
       /\ \A id \in DOMAIN table \cap DOMAIN table' :
             table'[id].last_seen_at >= table[id].last_seen_at
      ]_vars

(* A call with correct = true has moved last_seen_at of a record created   *)
(* earlier to the time of the call.                                        *)
C24_Witness ==
    /\ last.step = "PatchUpdate" /\ last.ok /\ last.correct
    /\ last.id \in DOMAIN table
    /\ table[last.id].created_at = 0
    /\ table[last.id].last_seen_at = 1
    /\ clock = 1

(* C25: a delete by id the store carries out removes the record with that *)
(* id, active or mastered, whatever its streak and wrong count, and leaves *)
(* every other record as it was, the records of the same document too.     *)
C25_DeleteOne ==
    [][(last'.step = "Delete" /\ last'.ok) =>
          /\ DOMAIN table' = DOMAIN table \ {last'.id}
          /\ \A x \in DOMAIN table' : table'[x] = table[x]
      ]_vars

(* A mastered record has been deleted and the other stored record, the     *)
(* second question of document docA, is left.                              *)
C25_Witness ==
    /\ last.step = "Delete" /\ last.ok
    /\ last.pre.present /\ last.pre.mastered
    /\ last.pre.correct_streak >= MASTERY_THRESHOLD
    /\ last.rows = 2
    /\ last.id \notin DOMAIN table
    /\ \E x \in DOMAIN table :
          table[x].storage_path = "docA" /\ table[x].question_id = 2
    /\ Cardinality(DOMAIN table) = 1

C27_BatchInOrder ==
    [][\A p \in Slots :
          (/\ IngestWriteStep(p) /\ req'[p].pc = "idle"
           /\ hist.track /\ hist.clean /\ hist'.clean /\ hist.n = 1
           /\ DOMAIN hist.base = {} /\ Len(hist.ops) = 1
           /\ \A i \in 1..Len(hist.ops[1].questions) :
                 /\ hist.ops[1].questions[i].storage_path =
                       hist.ops[1].questions[1].storage_path
                 /\ hist.ops[1].questions[i].question_id =
                       hist.ops[1].questions[1].question_id)
          => LET qs == hist.ops[1].questions
             IN /\ Cardinality(DOMAIN table') = 1
                /\ \A id \in DOMAIN table' :
                      /\ table'[id].storage_path = qs[1].storage_path
                      /\ table'[id].question_id = qs[1].question_id
                      /\ table'[id].question = qs[1].question
                      /\ table'[id].wrong_count = Len(qs)
      ]_vars

(* A batch of two tuples of one pair runs alone on a table that was empty: *)
(* the first tuple was inserted and the lookup of the second has found the *)
(* record of the first.                                                    *)
C27_Witness ==
    /\ hist.track /\ hist.clean /\ hist.n = 1
    /\ DOMAIN hist.base = {} /\ Len(hist.ops) = 1
    /\ hist.ops[1].kind = "POST" /\ hist.ops[1].questions = <<Q1b, Q1>>
    /\ \E p \in Slots :
          /\ req[p].pc = "write" /\ req[p].questions = <<Q1>>
          /\ req[p].existing.found /\ req[p].existing.wrong_count = 1
          /\ Cardinality(DOMAIN table) = 1
          /\ table[req[p].existing.id].question = Q1b.question

(* C28: record outcome never creates a record: the update of a call whose  *)
(* record was deleted after the fetch matches no row, leaves the table as  *)
(* it is, the record absent, and the call is answered with success.  No    *)
(* update of a call adds an id to the table.                               *)
C28_OutcomeNeverCreates ==
    [][\A p \in Slots :
          PatchUpdateStep(p) =>
              /\ DOMAIN table' = DOMAIN table
              /\ req[p].id \notin DOMAIN table =>
                    /\ table' = table
                    /\ last'.status = 200
      ]_vars

(* A call whose record was deleted between its fetch and its update was    *)
(* answered with success, and the record is absent.                        *)
C28_Witness ==
    /\ last.step = "PatchUpdate" /\ last.ok /\ ~last.alone
    /\ ~last.pre.present
    /\ last.status = 200
    /\ last.id \notin DOMAIN table

(* C29: when requests do not overlap, the update of a record-outcome call  *)
(* with correct = true that the store carries out on a mastered record     *)
(* leaves mastered = TRUE and correct_streak one higher, at the threshold  *)
(* and above it alike; a stored record goes from mastered to active only   *)
(* in the update of a record-outcome call with correct = false or of an    *)
(* ingest step that found it.                                              *)
C29_MasteryKept ==
    [][/\ \A p \in Slots :
             (/\ PatchUpdateStep(p) /\ req[p].correct /\ last'.ok
              /\ req[p].id \in DOMAIN table /\ table[req[p].id].mastered) =>
                /\ table'[req[p].id].mastered
                /\ table'[req[p].id].correct_streak =
                      table[req[p].id].correct_streak + 1
       /\ \A id \in DOMAIN table \cap DOMAIN table' :
             (table[id].mastered /\ ~table'[id].mastered) =>
                /\ last'.id = id
                /\ \/ last'.step = "PatchUpdate" /\ ~last'.correct
                   \/ last'.step = "PostWrite" /\ last'.found
      ]_vars

(* A call with correct = true on a mastered record with a streak of 3 has  *)
(* left it mastered with a streak of 4.                                    *)
C29_Witness ==
    /\ last.step = "PatchUpdate" /\ last.ok /\ last.correct
    /\ last.pre.mastered /\ last.pre.correct_streak = MASTERY_THRESHOLD
    /\ table[last.id].mastered
    /\ table[last.id].correct_streak = MASTERY_THRESHOLD + 1

====
